---- MODULE Spec2Model ----
(***************************************************************************)
(* The session store of the SlideDeck AI web client                        *)
(* (apps/web/src/lib/store.ts) together with the API client it calls       *)
(* (lib/api.ts).  The store's twelve fields are the variables; every store *)
(* action is one action of the model; an async action (generate, refine)   *)
(* is two steps, the part that runs up to the await (the dispatch) and the *)
(* continuation that runs when the transport settles.                      *)
(*                                                                         *)
(* A nullable field holds <<>> for null/undefined and <<v>> for a value v. *)
(***************************************************************************)
EXTENDS Integers, Sequences, FiniteSets, TLC

\* ── Bounds ────────────────────────────────────────────────────────────────
MaxCalls == 3       \* generate/refine invocations that reach the transport

\* ── Values ────────────────────────────────────────────────────────────────
Null    == <<>>
Some(v) == <<v>>
Val(o)  == o[1]

\* JavaScript truthiness of a nullable string: null, undefined and "" are falsy.
Falsy(o) == o = Null \/ o = Some("")

API_BASE == "http://localhost:8000"

GenerationModes == {"from_scratch", "template", "reference"}

Prompts       == {"pitch deck"}
Instructions  == {"make it shorter"}
PromptInputs  == {"", "pitch deck"}
Files         == {"brand.pptx", "notes.txt"}
NumSlidesArgs == {Null, Some(3)}

TextBox(content, isTitle) ==
    [type |-> "text", content |-> content, is_title |-> isTitle]

Slide(i) ==
    [layout |-> IF i = 1 THEN "title" ELSE "title_content",
     elements |-> <<TextBox("slide " \o ToString(i), i = 1)>>]

Deck(n) ==
    [title |-> "deck of " \o ToString(n), slides |-> [i \in 1..n |-> Slide(i)]]

DeckSizes == {1, 2}

Presentations == {Deck(n) : n \in DeckSizes}

\* Arguments of setActiveSlide: every slide of the largest deck, one below
\* the first and one past the last.
SlideIndexes == {-1, 0, 1, 2}

\* ── lib/api.ts ────────────────────────────────────────────────────────────
getDownloadUrl(presentationId) ==
    API_BASE \o "/api/download/" \o presentationId

getPreviewUrl(presentationId, slideIndex) ==
    API_BASE \o "/api/preview/" \o presentationId \o "/" \o ToString(slideIndex)

ApiError(status, message) ==
    [isError |-> TRUE, name |-> "ApiError", status |-> status, message |-> message]

TypeError(message) ==
    [isError |-> TRUE, name |-> "TypeError", status |-> 0, message |-> message]

Threw(e)    == [threw |-> TRUE, value |-> e]
Returned(v) == [threw |-> FALSE, value |-> v]

AfterFetch_StatusTextOnly(f) ==
    IF f.rejects THEN Threw(f.reason)
    ELSE IF ~f.res.ok
         THEN Threw(ApiError(f.res.status, f.res.statusText))
         ELSE Returned(f.res.json)

\* The body of request/requestMultipart after `await fetch(...)`: f is what
\* fetch settled with.
AfterFetch(f) ==
    IF f.rejects THEN Threw(f.reason)
    ELSE IF ~f.res.ok
         THEN Threw(ApiError(f.res.status,
                             IF f.res.body # "" THEN f.res.body
                                                ELSE f.res.statusText))
         ELSE Returned(f.res.json)

requestMultipart(f) == AfterFetch(f)

request(f) == AfterFetch(f)

generatePresentation_DefaultMode(data, file) ==
    LET f0 == <<<<"prompt", data.prompt>>>>
        f1 == IF data.num_slides # Null
              THEN Append(f0, <<"num_slides", ToString(Val(data.num_slides))>>)
              ELSE f0
        f2 == Append(f1, <<"generation_mode", "from_scratch">>)
        f3 == IF file # Null THEN Append(f2, <<"file", Val(file)>>) ELSE f2
    IN  [path |-> "/api/generate", method |-> "POST", body |-> f3]

\* The form fields generatePresentation appends, in order.
generatePresentation(data, file) ==
    LET f0 == <<<<"prompt", data.prompt>>>>
        f1 == IF data.num_slides # Null
              THEN Append(f0, <<"num_slides", ToString(Val(data.num_slides))>>)
              ELSE f0
        f2 == Append(f1, <<"generation_mode",
                           IF data.generation_mode # ""
                           THEN data.generation_mode ELSE "from_scratch">>)
        f3 == IF file # Null THEN Append(f2, <<"file", Val(file)>>) ELSE f2
    IN  [path |-> "/api/generate", method |-> "POST", body |-> f3]

refinePresentation(presentationId, instruction) ==
    [path |-> "/api/refine/" \o presentationId, method |-> "POST",
     body |-> <<<<"instruction", instruction>>>>]

\* ── What the service can answer (types/schema.ts) ─────────────────────────
ServerPreviewUrls(id, k) ==
    [i \in 1..k |-> "/previews/" \o id \o "/" \o ToString(i - 1) \o ".png"]

\* Previews may be partial: one per slide, or one short.
ResponsesFor(id) ==
    { [presentation_id |-> id,
       presentation    |-> p,
       download_url    |-> "/api/download/" \o id,
       preview_urls    |-> ServerPreviewUrls(id, k)] :
        p \in Presentations, k \in {0, 1, 2} }

Responses(id) ==
    { r \in ResponsesFor(id) :
        Len(r.preview_urls) \in {Len(r.presentation.slides) - 1,
                                 Len(r.presentation.slides)} }

\* The service issues a fresh identity for every generate request.
NewId(n) == "p" \o ToString(n)

HttpOk(json) ==
    [rejects |-> FALSE,
     res |-> [ok |-> TRUE, status |-> 200, statusText |-> "OK", body |-> "",
              json |-> json]]

HttpFail(status, statusText, body) ==
    [rejects |-> FALSE,
     res |-> [ok |-> FALSE, status |-> status, statusText |-> statusText,
              body |-> body, json |-> Null]]

FetchRejects(reason) == [rejects |-> TRUE, reason |-> reason]

FetchFailures ==
    { HttpFail(500, "Internal Server Error", ""),
      HttpFail(422, "Unprocessable Entity", "prompt too long"),
      FetchRejects([isError |-> FALSE, value |-> "aborted"]) }

\* A 2xx answer whose body is the JSON text `null`.
FetchNullBody == HttpOk(Null)

\* What fetch can settle with for a request the service answers as id.
FetchResultsFor(id) ==
    {HttpOk(Some(r)) : r \in Responses(id)} \cup FetchFailures \cup {FetchNullBody}

\* ── State ─────────────────────────────────────────────────────────────────
VARIABLES
    prompt, isGenerating, isRefining, presentation, presentationId,
    previewUrls, downloadUrl, error, activeSlideIndex, generationMode,
    templateFile, promptHistory,    \* the store's fields (store.ts 45-56)
    calls,                          \* generate/refine calls awaiting the transport
    nCalls,                         \* requests handed to fetch so far
    opened,                         \* URLs handed to window.open so far
    lastOp                          \* the step just taken

storeVars ==
    <<prompt, isGenerating, isRefining, presentation, presentationId,
      previewUrls, downloadUrl, error, activeSlideIndex, generationMode,
      templateFile, promptHistory>>

vars == <<storeVars, calls, nCalls, opened, lastOp>>

Store ==
    [prompt |-> prompt, isGenerating |-> isGenerating, isRefining |-> isRefining,
     presentation |-> presentation, presentationId |-> presentationId,
     previewUrls |-> previewUrls, downloadUrl |-> downloadUrl, error |-> error,
     activeSlideIndex |-> activeSlideIndex, generationMode |-> generationMode,
     templateFile |-> templateFile, promptHistory |-> promptHistory]

InitialState ==
    [prompt |-> "", isGenerating |-> FALSE, isRefining |-> FALSE,
     presentation |-> Null, presentationId |-> Null,
     previewUrls |-> <<>>, downloadUrl |-> Null, error |-> Null,
     activeSlideIndex |-> 0, generationMode |-> "from_scratch",
     templateFile |-> Null, promptHistory |-> <<>>]

\* The record of one step: the operation, its argument, the id of the call it
\* dispatched or settled (0 when none), the state of the promise the async
\* action returned ("pending") or settled with, and the requests it handed to
\* fetch.
Op(op, arg, id, promise) ==
    [op |-> op, arg |-> arg, call |-> id, promise |-> promise, sent |-> <<>>,
     overlapped |-> FALSE, resetDuring |-> FALSE]

\* The record of a step that handed the request req to fetch.
Sent(op, arg, id, promise, req) ==
    [op |-> op, arg |-> arg, call |-> id, promise |-> promise, sent |-> <<req>>,
     overlapped |-> FALSE, resetDuring |-> FALSE]

Retries_OnFailure(f) ==
    IF f.rejects THEN <<"retry">>
    ELSE IF ~f.res.ok THEN <<"retry">> ELSE <<>>

\* The requests request/requestMultipart and the continuations of generate
\* and refine hand to fetch once fetch has settled with f: none, there is no
\* loop around `await fetch(...)` and no catch block calls the transport.
Retries(f) == <<>>

\* The record of the step that settled call c with what fetch gave, f.
Settled(op, f, c, promise) ==
    [op |-> op, arg |-> Some(f), call |-> c.id, promise |-> promise,
     sent |-> Retries(f), overlapped |-> c.overlapped,
     resetDuring |-> c.resetDuring]

\* The fields a completion can replace, as they are when a call is dispatched.
Snapshot ==
    [presentation |-> presentation, presentationId |-> presentationId,
     previewUrls |-> previewUrls, downloadUrl |-> downloadUrl,
     promptHistory |-> promptHistory]

Init ==
    /\ prompt = InitialState.prompt
    /\ isGenerating = InitialState.isGenerating
    /\ isRefining = InitialState.isRefining
    /\ presentation = InitialState.presentation
    /\ presentationId = InitialState.presentationId
    /\ previewUrls = InitialState.previewUrls
    /\ downloadUrl = InitialState.downloadUrl
    /\ error = InitialState.error
    /\ activeSlideIndex = InitialState.activeSlideIndex
    /\ generationMode = InitialState.generationMode
    /\ templateFile = InitialState.templateFile
    /\ promptHistory = InitialState.promptHistory
    /\ calls = {}
    /\ nCalls = 0
    /\ opened = {}
    /\ lastOp = Op("init", Null, 0, "none")

\* ── Store actions (store.ts 59-147) ────────────────────────────────────────
setPrompt(p) ==
    /\ prompt' = p
    /\ lastOp' = Op("setPrompt", Some(p), 0, "none")
    /\ UNCHANGED <<isGenerating, isRefining, presentation, presentationId,
                   previewUrls, downloadUrl, error, activeSlideIndex,
                   generationMode, templateFile, promptHistory,
                   calls, nCalls, opened>>

setActiveSlide(index) ==
    /\ activeSlideIndex' = index
    /\ lastOp' = Op("setActiveSlide", Some(index), 0, "none")
    /\ UNCHANGED <<prompt, isGenerating, isRefining, presentation,
                   presentationId, previewUrls, downloadUrl, error,
                   generationMode, templateFile, promptHistory,
                   calls, nCalls, opened>>

setGenerationMode(mode) ==
    /\ generationMode' = mode
    /\ lastOp' = Op("setGenerationMode", Some(mode), 0, "none")
    /\ UNCHANGED <<prompt, isGenerating, isRefining, presentation,
                   presentationId, previewUrls, downloadUrl, error,
                   activeSlideIndex, templateFile, promptHistory,
                   calls, nCalls, opened>>

setTemplateFile(file) ==
    /\ templateFile' = file
    /\ lastOp' = Op("setTemplateFile", file, 0, "none")
    /\ UNCHANGED <<prompt, isGenerating, isRefining, presentation,
                   presentationId, previewUrls, downloadUrl, error,
                   activeSlideIndex, generationMode, promptHistory,
                   calls, nCalls, opened>>

\* A call that is dispatched while others are outstanding overlaps them all.
Overlap(cs) == {[c EXCEPT !.overlapped = TRUE] : c \in cs}

\* generate, up to `await generatePresentation(...)`: lines 68-79.  The
\* request is built and handed to fetch before the function first suspends.
generate(p, numSlides) ==
    /\ nCalls < MaxCalls
    /\ LET req == generatePresentation(
                      [prompt |-> p, num_slides |-> numSlides,
                       generation_mode |-> generationMode],
                      templateFile)
           c == [id |-> nCalls + 1, kind |-> "generate", arg |-> p,
                 numSlides |-> numSlides,
                 presentationId |-> Null, promptHistory |-> <<>>,
                 snap |-> Snapshot, overlapped |-> calls # {},
                 resetDuring |-> FALSE]
       IN  /\ calls' = Overlap(calls) \cup {c}
           /\ lastOp' = Sent("generate", Some(p), c.id, "pending", req)
    /\ isGenerating' = TRUE
    /\ error' = Null
    /\ nCalls' = nCalls + 1
    /\ UNCHANGED <<prompt, isRefining, presentation, presentationId,
                   previewUrls, downloadUrl, activeSlideIndex,
                   generationMode, templateFile, promptHistory, opened>>

\* What the try block of generate/refine evaluates to once the transport call
\* r has settled: reading `response.presentation` of a null body throws.
TryBlock(r) ==
    IF r.threw THEN r
    ELSE IF r.value = Null
         THEN Threw(TypeError("Cannot read properties of null"))
         ELSE Returned(Val(r.value))

CatchBlock_AlwaysFallback(err, fallback) ==
    Returned(fallback)

CatchBlock_Rethrows(err, fallback) ==
    IF err.isError THEN Returned(err.message) ELSE Threw(err)

\* The catch block: it takes the message to store and completes normally.
CatchBlock(err, fallback) ==
    Returned(IF err.isError THEN err.message ELSE fallback)

\* The promise of an async function whose try block gave t.
PromiseOf(t, fallback) ==
    IF ~t.threw THEN "fulfilled"
    ELSE IF CatchBlock(t.value, fallback).threw THEN "rejected"
         ELSE "fulfilled"

CursorAfterInstall_Keeps == activeSlideIndex

\* The cursor a successful generate or refine installs: lines 87 and 115.
CursorAfterInstall == 0

HistoryAfterGenerate_Appends(p) == Append(promptHistory, p)

\* The history a successful generate installs: line 88.
HistoryAfterGenerate(p) == <<p>>

HistoryAfterRefine_Resets(history, instruction) == <<instruction>>

\* The history a successful refine installs, from the history it read
\* before the await: line 116.
HistoryAfterRefine(history, instruction) == Append(history, instruction)

generateSettle_FailureStaysBusy(c, f) ==
    /\ c \in calls
    /\ c.kind = "generate"
    /\ LET t == TryBlock(requestMultipart(f))
       IN  /\ IF ~t.threw
              THEN /\ isGenerating' = FALSE
                   /\ presentation' = Some(t.value.presentation)
                   /\ presentationId' = Some(t.value.presentation_id)
                   /\ previewUrls' = t.value.preview_urls
                   /\ downloadUrl' = Some(getDownloadUrl(t.value.presentation_id))
                   /\ activeSlideIndex' = CursorAfterInstall
                   /\ promptHistory' = HistoryAfterGenerate(c.arg)
                   /\ UNCHANGED error
              ELSE /\ error' = Some(CatchBlock(t.value, "Generation failed").value)
                   /\ UNCHANGED <<isGenerating, presentation, presentationId,
                                  previewUrls, downloadUrl, activeSlideIndex,
                                  promptHistory>>
           /\ lastOp' = Settled(IF t.threw THEN "generateFailed" ELSE "generateOk",
                                f, c, PromiseOf(t, "Generation failed"))
    /\ calls' = calls \ {c}
    /\ nCalls' = nCalls + Len(Retries(f))
    /\ UNCHANGED <<prompt, isRefining, generationMode, templateFile, opened>>

\* generate, after the await: lines 81-95.
generateSettle(c, f) ==
    /\ c \in calls
    /\ c.kind = "generate"
    /\ LET t == TryBlock(requestMultipart(f))
       IN  /\ IF ~t.threw
              THEN /\ isGenerating' = FALSE
                   /\ presentation' = Some(t.value.presentation)
                   /\ presentationId' = Some(t.value.presentation_id)
                   /\ previewUrls' = t.value.preview_urls
                   /\ downloadUrl' = Some(getDownloadUrl(t.value.presentation_id))
                   /\ activeSlideIndex' = CursorAfterInstall
                   /\ promptHistory' = HistoryAfterGenerate(c.arg)
                   /\ UNCHANGED error
              ELSE /\ isGenerating' = FALSE
                   /\ error' = Some(CatchBlock(t.value, "Generation failed").value)
                   /\ UNCHANGED <<presentation, presentationId, previewUrls,
                                  downloadUrl, activeSlideIndex, promptHistory>>
           /\ lastOp' = Settled(IF t.threw THEN "generateFailed" ELSE "generateOk",
                                f, c, PromiseOf(t, "Generation failed"))
    /\ calls' = calls \ {c}
    /\ nCalls' = nCalls + Len(Retries(f))
    /\ UNCHANGED <<prompt, isRefining, generationMode, templateFile, opened>>

refineReturn_ClearsError(instruction) ==
    /\ error' = Null
    /\ lastOp' = Op("refine", Some(instruction), 0, "fulfilled")
    /\ UNCHANGED <<prompt, isGenerating, isRefining, presentation,
                   presentationId, previewUrls, downloadUrl, activeSlideIndex,
                   generationMode, templateFile, promptHistory,
                   calls, nCalls, opened>>

\* refine with no identity: line 100.
refineReturn(instruction) ==
    /\ lastOp' = Op("refine", Some(instruction), 0, "fulfilled")
    /\ UNCHANGED <<storeVars, calls, nCalls, opened>>

refineDispatch_ClearsPreviews(instruction) ==
    /\ nCalls < MaxCalls
    /\ LET req == refinePresentation(Val(presentationId), instruction)
           c == [id |-> nCalls + 1, kind |-> "refine", arg |-> instruction,
                 numSlides |-> Null,
                 presentationId |-> presentationId,
                 promptHistory |-> promptHistory,
                 snap |-> Snapshot, overlapped |-> calls # {},
                 resetDuring |-> FALSE]
       IN  /\ calls' = Overlap(calls) \cup {c}
           /\ lastOp' = Sent("refine", Some(instruction), c.id, "pending", req)
    /\ isRefining' = TRUE
    /\ error' = Null
    /\ previewUrls' = <<>>
    /\ nCalls' = nCalls + 1
    /\ UNCHANGED <<prompt, isGenerating, presentation, presentationId,
                   downloadUrl, activeSlideIndex,
                   generationMode, templateFile, promptHistory, opened>>

\* refine with an identity, up to `await refinePresentation(...)`: lines 102-108.
refineDispatch(instruction) ==
    /\ nCalls < MaxCalls
    /\ LET req == refinePresentation(Val(presentationId), instruction)
           c == [id |-> nCalls + 1, kind |-> "refine", arg |-> instruction,
                 numSlides |-> Null,
                 presentationId |-> presentationId,
                 promptHistory |-> promptHistory,
                 snap |-> Snapshot, overlapped |-> calls # {},
                 resetDuring |-> FALSE]
       IN  /\ calls' = Overlap(calls) \cup {c}
           /\ lastOp' = Sent("refine", Some(instruction), c.id, "pending", req)
    /\ isRefining' = TRUE
    /\ error' = Null
    /\ nCalls' = nCalls + 1
    /\ UNCHANGED <<prompt, isGenerating, presentation, presentationId,
                   previewUrls, downloadUrl, activeSlideIndex,
                   generationMode, templateFile, promptHistory, opened>>

\* refine, up to its first suspension: lines 98-108.
refine(instruction) ==
    IF Falsy(presentationId) THEN refineReturn(instruction)
                             ELSE refineDispatch(instruction)

\* refine, after the await: lines 110-123.
refineSettle(c, f) ==
    /\ c \in calls
    /\ c.kind = "refine"
    /\ LET t == TryBlock(request(f))
       IN  /\ IF ~t.threw
              THEN /\ isRefining' = FALSE
                   /\ presentation' = Some(t.value.presentation)
                   /\ previewUrls' = t.value.preview_urls
                   /\ downloadUrl' = Some(getDownloadUrl(t.value.presentation_id))
                   /\ activeSlideIndex' = CursorAfterInstall
                   /\ promptHistory' = HistoryAfterRefine(c.promptHistory, c.arg)
                   /\ UNCHANGED <<error, presentationId>>
              ELSE /\ isRefining' = FALSE
                   /\ error' = Some(CatchBlock(t.value, "Refinement failed").value)
                   /\ UNCHANGED <<presentation, presentationId, previewUrls,
                                  downloadUrl, activeSlideIndex, promptHistory>>
           /\ lastOp' = Settled(IF t.threw THEN "refineFailed" ELSE "refineOk",
                                f, c, PromiseOf(t, "Refinement failed"))
    /\ calls' = calls \ {c}
    /\ nCalls' = nCalls + Len(Retries(f))
    /\ UNCHANGED <<prompt, isGenerating, generationMode, templateFile, opened>>

reset_KeepsHistory ==
    /\ prompt' = ""
    /\ isGenerating' = FALSE
    /\ isRefining' = FALSE
    /\ presentation' = Null
    /\ presentationId' = Null
    /\ previewUrls' = <<>>
    /\ downloadUrl' = Null
    /\ error' = Null
    /\ activeSlideIndex' = 0
    /\ generationMode' = "from_scratch"
    /\ templateFile' = Null
    /\ calls' = {[c EXCEPT !.resetDuring = TRUE] : c \in calls}
    /\ lastOp' = Op("reset", Null, 0, "none")
    /\ UNCHANGED <<promptHistory, nCalls, opened>>

\* reset: lines 126-140.  Outstanding calls are not cancelled.
reset ==
    /\ prompt' = ""
    /\ isGenerating' = FALSE
    /\ isRefining' = FALSE
    /\ presentation' = Null
    /\ presentationId' = Null
    /\ previewUrls' = <<>>
    /\ downloadUrl' = Null
    /\ error' = Null
    /\ activeSlideIndex' = 0
    /\ generationMode' = "from_scratch"
    /\ templateFile' = Null
    /\ promptHistory' = <<>>
    /\ calls' = {[c EXCEPT !.resetDuring = TRUE] : c \in calls}
    /\ lastOp' = Op("reset", Null, 0, "none")
    /\ UNCHANGED <<nCalls, opened>>

downloadPptx_OpensAlways ==
    /\ opened' = opened \cup {IF downloadUrl = Null THEN "null"
                                                   ELSE Val(downloadUrl)}
    /\ lastOp' = Op("downloadPptx", Null, 0, "none")
    /\ UNCHANGED <<storeVars, calls, nCalls>>

\* downloadPptx: lines 142-147.
downloadPptx ==
    /\ opened' = IF ~Falsy(downloadUrl) THEN opened \cup {Val(downloadUrl)}
                                        ELSE opened
    /\ lastOp' = Op("downloadPptx", Null, 0, "none")
    /\ UNCHANGED <<storeVars, calls, nCalls>>

\* ── The preview panel (SlidePreview, store.ts 226-318) ─────────────────────
\* a[i] of a JavaScript array: undefined outside 0..length-1.
ArrayGet(a, i) == IF i \in 0..(Len(a) - 1) THEN Some(a[i + 1]) ELSE Null

\* What the stage of the panel shows.
Rendered(view, src, slide, index) ==
    [view |-> view, src |-> src, slide |-> slide, index |-> index]

\* <SlideCard slide index />: the JSON slide card.
SlideCard(slide, index) == Rendered("card", Null, Some(slide), index)

\* <img src=... />: the browser requests src.
PreviewImage(src, index) == Rendered("image", Some(src), Null, index)

hasPreview_IgnoresEntry(urls, id, index) ==
    Len(urls) > 0 /\ ~Falsy(id)

\* lines 252-255.
hasPreview(urls, id, index) ==
    Len(urls) > 0 /\ ~Falsy(id) /\ ~Falsy(ArrayGet(urls, index))

\* What SlidePreview renders in the current state: lines 230-270.
SlidePreview ==
    IF presentation = Null
    THEN Rendered("empty", Null, Null, activeSlideIndex)
    ELSE LET slides == Val(presentation).slides
             activeSlide == ArrayGet(slides, activeSlideIndex)
         IN  IF hasPreview(previewUrls, presentationId, activeSlideIndex)
             THEN PreviewImage(getPreviewUrl(Val(presentationId),
                                             activeSlideIndex),
                               activeSlideIndex)
             ELSE IF activeSlide # Null
                  THEN SlideCard(Val(activeSlide), activeSlideIndex)
                  ELSE Rendered("nothing", Null, Null, activeSlideIndex)

min(a, b) == IF a <= b THEN a ELSE b

max(a, b) == IF a >= b THEN a ELSE b

\* The "next" button: lines 248-249, disabled on the last slide (285-289).
goNext ==
    /\ presentation # Null
    /\ ~(activeSlideIndex >= Len(Val(presentation).slides) - 1)
    /\ setActiveSlide(min(activeSlideIndex + 1,
                          Len(Val(presentation).slides) - 1))

\* The "previous" button: line 250, disabled on the first slide (275-279).
goPrev ==
    /\ presentation # Null
    /\ ~(activeSlideIndex = 0)
    /\ setActiveSlide(max(activeSlideIndex - 1, 0))

\* The thumbnail of slide idx: lines 297-306.
thumbClick(idx) ==
    /\ presentation # Null
    /\ idx \in 0..(Len(Val(presentation).slides) - 1)
    /\ setActiveSlide(idx)

\* What fetch can settle with for the request of call c; the service answers
\* a refine with the identity it was asked about.
FetchResults(c) ==
    FetchResultsFor(IF c.kind = "generate" THEN NewId(c.id)
                                           ELSE Val(c.presentationId))

\* ── The controls (components/ChatPanel.tsx, components/Header.tsx) ────────
EXAMPLE_PROMPTS == {"Build a 3-slide company quarterly results summary"}

\* What can be typed into the prompt and refinement textareas.
TypedPrompts == {"   ", " pitch deck "}
TypedInstructions == {"  ", "make it shorter "}

\* String.prototype.trim on the texts above.
trim(s) ==
    CASE s = "   " -> ""
      [] s = "  " -> ""
      [] s = " pitch deck " -> "pitch deck"
      [] s = "make it shorter " -> "make it shorter"
      [] OTHER -> s

isBusy == isGenerating \/ isRefining

\* The prompt textarea: rendered while there is no presentation, disabled
\* while busy (ChatPanel.tsx 277, 302-315).
promptOnChange(text) ==
    /\ presentation = Null
    /\ ~isBusy
    /\ setPrompt(text)

\* An example chip: rendered while there is no presentation (166-181).
handleExample(example) ==
    /\ presentation = Null
    /\ setPrompt(example)

\* Submitting the generate form, by the send button (disabled on a blank
\* prompt or while busy, 316-320) or by Enter in the textarea (disabled
\* while busy): handleSubmit, 54-58.
handleSubmit(numSlides) ==
    /\ presentation = Null
    /\ ~isBusy
    /\ ~(trim(prompt) = "" \/ isGenerating)
    /\ generate(trim(prompt), numSlides)

\* Submitting the refine form with refineInput in the textarea (331-358):
\* handleRefine, 60-65.
handleRefine(refineInput) ==
    /\ presentation # Null
    /\ ~isBusy
    /\ ~(trim(refineInput) = "" \/ isRefining)
    /\ refine(trim(refineInput))

\* String.prototype.endsWith on the names of Files.
endsWith(name, suffix) ==
    CASE name = "brand.pptx" -> suffix \in {".pptx", "pptx", "x", ""}
      [] name = "notes.txt" -> suffix \in {".txt", "txt", "t", ""}
      [] OTHER -> suffix = ""

showFileUpload == generationMode = "template" \/ generationMode = "reference"

\* What a file picker or a drop can hand over: nothing, or any file.
PickedFiles == {Null} \cup {Some(n) : n \in Files}

\* A mode tab: rendered while there is no presentation (103-121).
modeTabClick(mode) ==
    /\ presentation = Null
    /\ setGenerationMode(mode)

\* The file picker, opened by the upload button shown while no file is
\* selected (144-161): handleFileChange, 71-76.
handleFileChange(file) ==
    /\ presentation = Null
    /\ showFileUpload
    /\ templateFile = Null
    /\ ~Falsy(file)
    /\ setTemplateFile(file)

\* A drop on the upload zone (124-129): handleFileDrop, 78-84.
handleFileDrop(file) ==
    /\ presentation = Null
    /\ showFileUpload
    /\ ~Falsy(file) /\ endsWith(Val(file), ".pptx")
    /\ setTemplateFile(file)

\* The remove button of the selected file (136-141).
fileRemoveClick ==
    /\ presentation = Null
    /\ showFileUpload
    /\ templateFile # Null
    /\ setTemplateFile(Null)

\* "Start Over" (ChatPanel.tsx 234-240) and "New" (Header.tsx 33-38): both
\* rendered whenever a presentation exists, never disabled.
resetClick ==
    /\ presentation # Null
    /\ reset

\* ── What the wire can carry ───────────────────────────────────────────────
\* res.json() is handed to the store as it was parsed: the body of a 2xx
\* answer is whatever JSON the service wrote, typed GenerateResponse or
\* RefineResponse by declaration only.
SlideElementTypes == {"text", "image", "chart"}

ChartElement(categories, values) ==
    [type |-> "chart", chart_type |-> "bar", categories |-> categories,
     series |-> <<[name |-> "Revenue", values |-> values]>>]

\* A parsed element object whose type tag is tag.
TaggedElement(tag) == [type |-> tag, url |-> "clip.mp4"]

WireDeck(title, elements) ==
    [title |-> title,
     slides |-> <<[layout |-> "title_content", elements |-> elements]>>]

WireDecks ==
    { WireDeck("text deck", <<TextBox("slide 1", TRUE)>>),
      WireDeck("video deck", <<TextBox("slide 1", TRUE), TaggedElement("video")>>),
      WireDeck("chart deck", <<ChartElement(<<"Q1", "Q2", "Q3">>, <<10, 20, 30>>)>>),
      WireDeck("short chart deck", <<ChartElement(<<"Q1", "Q2", "Q3">>, <<10, 20>>)>>) }

WireResponses(id) ==
    { [presentation_id |-> id,
       presentation    |-> p,
       download_url    |-> "/api/download/" \o id,
       preview_urls    |-> ServerPreviewUrls(id, Len(p.slides))] :
        p \in WireDecks }

\* What fetch can settle with for the request of call c when the body is not
\* assumed to conform to the schema.
WireResults(c) ==
    {HttpOk(Some(r)) :
        r \in WireResponses(IF c.kind = "generate" THEN NewId(c.id)
                                                   ELSE Val(c.presentationId))}
    \cup {HttpFail(500, "Internal Server Error", "")}

\* ── Specifications ────────────────────────────────────────────────────────
\* The session state machine: the calls, their completions, reset and the
\* slide cursor, with the generation form left at its defaults.
SessionNext ==
    \/ \E i \in SlideIndexes : setActiveSlide(i)
    \/ \E p \in Prompts : generate(p, Null)
    \/ \E c \in calls : \E f \in FetchResults(c) : generateSettle(c, f)
    \/ \E i \in Instructions : refine(i)
    \/ \E c \in calls : \E f \in FetchResults(c) : refineSettle(c, f)
    \/ reset

SessionSpec == Init /\ [][SessionNext]_vars

\* The generation form: the setters, generate and its completion, reset and
\* the download.
FormNext ==
    \/ \E p \in PromptInputs : setPrompt(p)
    \/ \E m \in GenerationModes : setGenerationMode(m)
    \/ \E f \in {Null} \cup {Some(n) : n \in Files} : setTemplateFile(f)
    \/ \E p \in Prompts, n \in NumSlidesArgs : generate(p, n)
    \/ \E c \in calls : \E f \in FetchResults(c) : generateSettle(c, f)
    \/ reset
    \/ downloadPptx

FormSpec == Init /\ [][FormNext]_vars

\* The session driven by a service whose answers are not assumed to conform
\* to the schema.
WireNext ==
    \/ \E p \in Prompts : generate(p, Null)
    \/ \E c \in calls : \E f \in WireResults(c) : generateSettle(c, f)
    \/ \E i \in Instructions : refine(i)
    \/ \E c \in calls : \E f \in WireResults(c) : refineSettle(c, f)

WireSpec == Init /\ [][WireNext]_vars

\* The store driven through the controls only.
UiNext ==
    \/ \E text \in TypedPrompts : promptOnChange(text)
    \/ \E example \in EXAMPLE_PROMPTS : handleExample(example)
    \/ \E n \in NumSlidesArgs : handleSubmit(n)
    \/ \E c \in calls : \E f \in FetchResults(c) : generateSettle(c, f)
    \/ \E text \in TypedInstructions : handleRefine(text)
    \/ \E c \in calls : \E f \in FetchResults(c) : refineSettle(c, f)
    \/ resetClick

UiSpec == Init /\ [][UiNext]_vars

\* The answers of FetchResults(c) with a preview for every slide: success,
\* every failure and the null body.
AnswersTo(c) ==
    {f \in FetchResults(c) :
        (~f.rejects /\ f.res.ok /\ f.res.json # Null) =>
            Len(Val(f.res.json).preview_urls) =
                Len(Val(f.res.json).presentation.slides)}

\* The calls alone: dispatches, completions and reset.
CallsNext ==
    \/ \E p \in Prompts : generate(p, Null)
    \/ \E c \in calls : \E f \in AnswersTo(c) : generateSettle(c, f)
    \/ \E i \in Instructions : refine(i)
    \/ \E c \in calls : \E f \in AnswersTo(c) : refineSettle(c, f)
    \/ reset

\* The transport answers every request: while a call is outstanding, the
\* continuation of some outstanding call of its kind eventually runs.
TransportAnswers ==
    /\ WF_vars(\E c \in calls : \E f \in AnswersTo(c) : generateSettle(c, f))
    /\ WF_vars(\E c \in calls : \E f \in AnswersTo(c) : refineSettle(c, f))

LiveSpec == Init /\ [][CallsNext]_vars /\ TransportAnswers

\* The generate request: the two form fields it reads, the call and its
\* completion.
RequestNext ==
    \/ \E m \in GenerationModes : setGenerationMode(m)
    \/ \E f \in {Null} \cup {Some(n) : n \in Files} : setTemplateFile(f)
    \/ \E p \in Prompts, n \in NumSlidesArgs : generate(p, n)
    \/ \E c \in calls : \E f \in AnswersTo(c) : generateSettle(c, f)

RequestSpec == Init /\ [][RequestNext]_vars

\* The calls with the cursor moved through the preview panel only.
PanelNext ==
    \/ goNext
    \/ goPrev
    \/ \E idx \in SlideIndexes : thumbClick(idx)
    \/ \E p \in Prompts : generate(p, Null)
    \/ \E c \in calls : \E f \in FetchResults(c) : generateSettle(c, f)
    \/ \E i \in Instructions : refine(i)
    \/ \E c \in calls : \E f \in FetchResults(c) : refineSettle(c, f)
    \/ reset

PanelSpec == Init /\ [][PanelNext]_vars

\* The generation form driven through its controls.
ChooserNext ==
    \/ \E m \in GenerationModes : modeTabClick(m)
    \/ \E f \in PickedFiles : handleFileChange(f)
    \/ \E f \in PickedFiles : handleFileDrop(f)
    \/ fileRemoveClick
    \/ \E text \in TypedPrompts : promptOnChange(text)
    \/ \E n \in NumSlidesArgs : handleSubmit(n)
    \/ \E c \in calls : \E f \in AnswersTo(c) : generateSettle(c, f)
    \/ resetClick

ChooserSpec == Init /\ [][ChooserNext]_vars

\* One successful answer (two slides, both previews) and one failure.
TwoAnswers(c) ==
    {HttpOk(Some(r)) :
        r \in {x \in Responses(NewId(c.id)) :
                  Len(x.presentation.slides) = 2 /\ Len(x.preview_urls) = 2}}
    \cup {HttpFail(500, "Internal Server Error", "")}

\* The four setters and the download, with a generate to give them a
\* presentation and a download reference.
SetterNext ==
    \/ \E p \in PromptInputs : setPrompt(p)
    \/ \E i \in SlideIndexes : setActiveSlide(i)
    \/ \E m \in GenerationModes : setGenerationMode(m)
    \/ \E f \in {Null} \cup {Some(n) : n \in Files} : setTemplateFile(f)
    \/ \E p \in Prompts : generate(p, Null)
    \/ \E c \in calls : \E f \in TwoAnswers(c) : generateSettle(c, f)
    \/ downloadPptx

SetterSpec == Init /\ [][SetterNext]_vars

\* Every store action.
Next ==
    \/ \E p \in PromptInputs : setPrompt(p)
    \/ \E i \in SlideIndexes : setActiveSlide(i)
    \/ \E m \in GenerationModes : setGenerationMode(m)
    \/ \E f \in {Null} \cup {Some(n) : n \in Files} : setTemplateFile(f)
    \/ \E p \in Prompts, n \in NumSlidesArgs : generate(p, n)
    \/ \E c \in calls : \E f \in FetchResults(c) : generateSettle(c, f)
    \/ \E i \in Instructions : refine(i)
    \/ \E c \in calls : \E f \in FetchResults(c) : refineSettle(c, f)
    \/ reset
    \/ downloadPptx

Spec == Init /\ [][Next]_vars

\* ── Properties ────────────────────────────────────────────────────────────
\* A call is serial when no other call was outstanding at any time between
\* its dispatch and its completion and reset was not invoked in between.

\* The response carried by a step that settled a call successfully.
ResponseOf(op) == Val(Val(op.arg).res.json)

\* The message of a failed transport call: the Error's message; for a
\* non-success status the body, or the status text when the body is empty.
TransportMessage(f) ==
    IF f.rejects THEN f.reason.message
    ELSE IF f.res.body # "" THEN f.res.body ELSE f.res.statusText

CarriesError(f) ==
    IF f.rejects THEN f.reason.isError ELSE ~f.res.ok

\* C1: when generate(prompt) completes successfully with (id, P, previews),
\* the state has isGenerating = false, presentation = P, presentationId = id,
\* previewUrls = previews, downloadUrl = getDownloadUrl(id), activeSlideIndex
\* = 0 and promptHistory = [prompt], whatever presentation and history came
\* before; and isRefining = false when no other call was outstanding during
\* the call.
C1_GenerateSuccess ==
    [][\A c \in calls :
        (lastOp'.op = "generateOk" /\ lastOp'.call = c.id) =>
            LET r == ResponseOf(lastOp') IN
            /\ isGenerating' = FALSE
            /\ ~c.overlapped => isRefining' = FALSE
            /\ presentation' = Some(r.presentation)
            /\ presentationId' = Some(r.presentation_id)
            /\ previewUrls' = r.preview_urls
            /\ downloadUrl' = Some(getDownloadUrl(r.presentation_id))
            /\ activeSlideIndex' = 0
            /\ promptHistory' = <<c.arg>>]_vars

\* A second generate, alone, has just replaced whatever the first left.
C1_Witness ==
    /\ lastOp.op = "generateOk"
    /\ ~lastOp.overlapped
    /\ lastOp.call = 2
    /\ presentationId = Some("p2")
    /\ promptHistory = <<"pitch deck">>

\* C2: when refine(instruction), invoked with identity id and history H,
\* completes successfully, the state has isRefining = false, the response's
\* presentation, previews and download reference, activeSlideIndex = 0 and
\* promptHistory = H followed by instruction; and presentationId is still id
\* when the call was serial.
C2_RefineSuccess ==
    [][\A c \in calls :
        (lastOp'.op = "refineOk" /\ lastOp'.call = c.id) =>
            LET r == ResponseOf(lastOp') IN
            /\ isRefining' = FALSE
            /\ presentation' = Some(r.presentation)
            /\ (~c.overlapped /\ ~c.resetDuring) =>
                   (presentationId' = c.snap.presentationId /\ presentationId' # Null)
            /\ previewUrls' = r.preview_urls
            /\ downloadUrl' = Some(getDownloadUrl(r.presentation_id))
            /\ activeSlideIndex' = 0
            /\ promptHistory' = c.snap.promptHistory \o <<c.arg>>]_vars

\* The second serial refine of a deck has completed: H had two entries.
C2_Witness ==
    /\ lastOp.op = "refineOk"
    /\ ~lastOp.overlapped /\ ~lastOp.resetDuring
    /\ presentationId = Some("p1")
    /\ promptHistory = <<"pitch deck", "make it shorter", "make it shorter">>

\* C3: a failing generate or refine leaves presentation, presentationId,
\* previewUrls, downloadUrl and promptHistory as they are, clears its busy
\* flag and sets error, to the failure's message when the failure carries
\* one; when the call was serial, the five fields have the values they had
\* when the call was dispatched and both busy flags are false (Ready if a
\* presentation existed, Idle if not).
C3_FailurePreservesState ==
    [][\A c \in calls :
        (lastOp'.op \in {"generateFailed", "refineFailed"}
            /\ lastOp'.call = c.id) =>
            /\ Snapshot' = Snapshot
            /\ c.kind = "generate" => isGenerating' = FALSE
            /\ c.kind = "refine" => isRefining' = FALSE
            /\ error' # Null
            /\ CarriesError(Val(lastOp'.arg)) =>
                   error' = Some(TransportMessage(Val(lastOp'.arg)))
            /\ (~c.overlapped /\ ~c.resetDuring) =>
                   /\ Snapshot' = c.snap
                   /\ isGenerating' = FALSE
                   /\ isRefining' = FALSE]_vars

\* A serial refine of an existing deck has just failed with a status message.
C3_Witness ==
    /\ lastOp.op = "refineFailed"
    /\ ~lastOp.overlapped /\ ~lastOp.resetDuring
    /\ presentation # Null
    /\ promptHistory = <<"pitch deck">>
    /\ error = Some("prompt too long")

\* C4: refine(instruction) while presentationId is null hands nothing to the
\* transport and changes no field of the state.
C4_RefineWithoutIdentity ==
    [][(lastOp'.op = "refine" /\ presentationId = Null) =>
            UNCHANGED <<storeVars, calls, nCalls>>]_vars

\* refine has just returned with no identity while an error was showing.
C4_Witness ==
    /\ lastOp.op = "refine"
    /\ presentationId = Null
    /\ error # Null

\* C5: reset is enabled in every state, and right after it the store
\* equals the initial state.
C5_ResetRestoresInitial ==
    /\ ENABLED reset
    /\ lastOp.op = "reset" => Store = InitialState

\* reset has just run with a call still outstanding, after an earlier call.
C5_Witness ==
    /\ lastOp.op = "reset"
    /\ calls # {}
    /\ nCalls >= 2

\* C6: at most one transport call is outstanding in every reachable state.
C6_AtMostOneOutstanding ==
    Cardinality(calls) <= 1

\* C7: generate invoked while a generate call is outstanding and
\* isGenerating is true hands nothing to the transport and changes no field.
C7_GenerateWhileGeneratingIsNoop ==
    [][(/\ lastOp'.op = "generate"
        /\ isGenerating
        /\ \E c \in calls : c.kind = "generate") =>
            UNCHANGED <<storeVars, calls, nCalls>>]_vars

Clamp(i, n) ==
    IF i < 0 THEN 0 ELSE IF i > n - 1 THEN n - 1 ELSE i

\* C8: with a presentation of n >= 1 slides, setActiveSlide(i) leaves
\* activeSlideIndex = min(max(i, 0), n - 1), and activeSlideIndex is in
\* [0, n - 1] in every state.
C8_ActiveSlideClamped ==
    (presentation # Null /\ Len(Val(presentation).slides) >= 1) =>
        LET n == Len(Val(presentation).slides) IN
        /\ activeSlideIndex \in 0..(n - 1)
        /\ lastOp.op = "setActiveSlide" =>
               activeSlideIndex = Clamp(Val(lastOp.arg), n)

\* C9: the promise of generate and refine is never rejected; a failure
\* settles it fulfilled and shows only as the error field.
C9_PromiseNeverRejects ==
    /\ lastOp.promise # "rejected"
    /\ lastOp.op \in {"generateFailed", "refineFailed"} =>
           (lastOp.promise = "fulfilled" /\ error # Null)

\* A call has just failed on a thrown value that is not an Error.
C9_Witness ==
    /\ lastOp.op \in {"generateFailed", "refineFailed"}
    /\ Val(lastOp.arg).rejects
    /\ ~Val(lastOp.arg).reason.isError
    /\ lastOp.promise = "fulfilled"

\* C10: isGenerating and isRefining are never both true.
C10_NotBothBusy ==
    ~(isGenerating /\ isRefining)

SettleOps == {"generateOk", "generateFailed", "refineOk", "refineFailed"}

\* C11: when reset was invoked while a call was outstanding and no other
\* call was invoked during it, the call's completion leaves presentation,
\* presentationId, previewUrls, downloadUrl, error and promptHistory at their
\* initial empty values.
C11_ResultAfterResetNotApplied ==
    (lastOp.op \in SettleOps /\ lastOp.resetDuring /\ ~lastOp.overlapped) =>
        /\ presentation = Null
        /\ presentationId = Null
        /\ previewUrls = <<>>
        /\ downloadUrl = Null
        /\ error = Null
        /\ promptHistory = <<>>

DispatchOps == {"generate", "refine"}

ElementsOf(p) ==
    UNION {{p.slides[i].elements[j] : j \in DOMAIN p.slides[i].elements} :
              i \in DOMAIN p.slides}

WellTagged(p) == \A el \in ElementsOf(p) : el.type \in SlideElementTypes

ChartsConsistent(p) ==
    \A el \in ElementsOf(p) :
        el.type = "chart" =>
            \A k \in DOMAIN el.series :
                Len(el.series[k].values) = Len(el.categories)

\* C12: no presentation with a slide element whose type tag is outside
\* {text, image, chart} is ever the current presentation, and the completion
\* of a call whose response carries such an element is a failure: the error
\* is recorded and presentation, presentationId and promptHistory keep the
\* values they had.
C12_UnknownElementRejected ==
    /\ presentation # Null => WellTagged(Val(presentation))
    /\ (/\ lastOp.op \in SettleOps
        /\ ~Val(lastOp.arg).rejects
        /\ Val(lastOp.arg).res.ok
        /\ ~WellTagged(ResponseOf(lastOp).presentation)) =>
            /\ lastOp.op \in {"generateFailed", "refineFailed"}
            /\ error # Null

\* C13: every chart element of the current presentation has, in every
\* series, as many values as the chart has categories.
C13_SeriesMatchCategories ==
    presentation # Null => ChartsConsistent(Val(presentation))

FieldNames(req) == {req.body[k][1] : k \in DOMAIN req.body}

FieldValues(req, name) ==
    {req.body[k][2] : k \in {j \in DOMAIN req.body : req.body[j][1] = name}}

\* C14: every generate request handed to the transport whose generation_mode
\* field is template or reference carries a file field, and was sent with
\* templateFile set.
C14_FileRequiredInFileModes ==
    lastOp.op = "generate" =>
        \A k \in DOMAIN lastOp.sent :
            FieldValues(lastOp.sent[k], "generation_mode")
                    \cap {"template", "reference"} # {} =>
                /\ "file" \in FieldNames(lastOp.sent[k])
                /\ templateFile # Null

\* C15: a generate or refine invocation that reaches the transport hands
\* exactly one request to fetch, the completion of a call (successful or
\* failed) hands none, and no other step sends anything: there are no retries
\* and no re-dispatch.
C15_OneRequestPerCall ==
    [][ /\ (lastOp'.op \in DispatchOps /\ lastOp'.call # 0) =>
               /\ nCalls' = nCalls + 1
               /\ Len(lastOp'.sent) = 1
               /\ Cardinality(calls') = Cardinality(calls) + 1
        /\ ~(lastOp'.op \in DispatchOps /\ lastOp'.call # 0) =>
               /\ nCalls' = nCalls
               /\ lastOp'.sent = <<>>
               /\ Cardinality(calls') <= Cardinality(calls) ]_vars

C15_Witness ==
    /\ lastOp.op \in {"generateFailed", "refineFailed"}
    /\ lastOp.sent = <<>>
    /\ nCalls = lastOp.call
    /\ calls = {}

\* C16: with a presentation on screen and the cursor i on one of its slides,
\* the panel shows the JSON card of slides[i] and requests no image when
\* previewUrls has no entry i or presentationId is null; and for any cursor it
\* requests a preview image only when previewUrls[i] exists and an identity
\* is set, and then the image of (presentationId, i).
C16_MissingPreviewFallsBackToCard ==
    presentation # Null =>
        LET i == activeSlideIndex
            slides == Val(presentation).slides
        IN  /\ (/\ 0 <= i
                 /\ i < Len(slides)
                 /\ (Len(previewUrls) <= i \/ presentationId = Null)) =>
                    /\ SlidePreview.view = "card"
                    /\ SlidePreview.slide = Some(slides[i + 1])
                    /\ SlidePreview.index = i
                    /\ SlidePreview.src = Null
            /\ SlidePreview.view = "image" =>
                    /\ 0 <= i
                    /\ i < Len(previewUrls)
                    /\ presentationId # Null
                    /\ SlidePreview.src =
                           Some(getPreviewUrl(Val(presentationId), i))

C16_Witness ==
    /\ presentation # Null
    /\ presentationId # Null
    /\ Len(previewUrls) > 0
    /\ Len(previewUrls) < Len(Val(presentation).slides)
    /\ activeSlideIndex = Len(previewUrls)
    /\ SlidePreview.view = "card"

\* C18: with the store driven only through the controls of ChatPanel and
\* Header, no two transport calls are outstanding at once.
C18_ControlsNeverOverlapCalls ==
    \A c \in calls : \A d \in calls : c.id = d.id

\* C19: presentation, presentationId and downloadUrl are all null or all
\* non-null in every reachable state.
C19_PresentationInstalledWhole ==
    \/ presentation = Null /\ presentationId = Null /\ downloadUrl = Null
    \/ presentation # Null /\ presentationId # Null /\ downloadUrl # Null

\* C20: whenever presentationId is non-null, downloadUrl is
\* getDownloadUrl(presentationId), and a completion that installs a
\* presentation installs one the service returned for that identity.
C20_DownloadMatchesIdentity ==
    presentationId # Null =>
        /\ downloadUrl = Some(getDownloadUrl(Val(presentationId)))
        /\ lastOp.op \in {"generateOk", "refineOk"} =>
               ResponseOf(lastOp).presentation_id = Val(presentationId)

\* C21: promptHistory is empty iff presentation is null; a successful
\* generate leaves promptHistory = [its prompt]; a successful refine appends
\* its instruction to the history on screen, so no earlier successful
\* instruction is lost and nothing of an earlier deck comes back; reset
\* empties it and no other step changes it.
C21_HistoryFollowsDeck ==
    [][ /\ (promptHistory' = <<>>) <=> (presentation' = Null)
        /\ \A c \in calls :
              lastOp'.call = c.id =>
                /\ lastOp'.op = "generateOk" => promptHistory' = <<c.arg>>
                /\ lastOp'.op = "refineOk" =>
                       /\ promptHistory # <<>>
                       /\ promptHistory' = Append(promptHistory, c.arg)
        /\ lastOp'.op = "reset" => promptHistory' = <<>>
        /\ lastOp'.op \notin {"generateOk", "refineOk", "reset"} =>
              promptHistory' = promptHistory ]_vars

\* C22: isGenerating is true iff a generate call is outstanding and
\* isRefining is true iff a refine call is outstanding.
C22_BusyFlagsFaithful ==
    /\ isGenerating <=> (\E c \in calls : c.kind = "generate")
    /\ isRefining <=> (\E c \in calls : c.kind = "refine")

\* C23: the step that dispatches generate (or refine with an identity) sets
\* isGenerating (resp. isRefining) to true and error to null and changes no
\* other field; and while a call is outstanding with no other call and no
\* reset since its dispatch, presentation, presentationId, previewUrls,
\* downloadUrl and promptHistory are what they were when it was dispatched.
C23_DispatchChangesOnlyBusyAndError ==
    [][ /\ (lastOp'.op \in DispatchOps /\ lastOp'.call # 0) =>
              /\ lastOp'.op = "generate" =>
                     (isGenerating' = TRUE /\ isRefining' = isRefining)
              /\ lastOp'.op = "refine" =>
                     (isRefining' = TRUE /\ isGenerating' = isGenerating)
              /\ error' = Null
              /\ UNCHANGED <<presentation, presentationId, previewUrls,
                             downloadUrl, activeSlideIndex, promptHistory,
                             prompt, generationMode, templateFile>>
        /\ \A c \in calls' :
              (~c.overlapped /\ ~c.resetDuring) => Snapshot' = c.snap ]_vars

\* A refine of a deck with previews is outstanding, alone.
C23_Witness ==
    /\ lastOp.op = "refine"
    /\ lastOp.call # 0
    /\ isRefining
    /\ presentation # Null
    /\ previewUrls # <<>>
    /\ \E c \in calls : ~c.overlapped /\ c.snap = Snapshot

FailedOps == {"generateFailed", "refineFailed"}

\* The text the store shows for a call whose fetch settled with f.
ExpectedError(f, fallback) ==
    IF f.rejects
    THEN IF f.reason.isError THEN f.reason.message ELSE fallback
    ELSE IF ~f.res.ok
         THEN IF f.res.body # "" THEN f.res.body ELSE f.res.statusText
         ELSE "Cannot read properties of null"

\* C24: dispatching generate or refine sets error to null; a failed call
\* sets error to the thrown Error's message (for a non-success status the
\* response body, or the status text when the body is empty) or to
\* "Generation failed" / "Refinement failed" when the thrown value is not an
\* Error; and error is null after the successful completion of a call that
\* no other call overlapped.
C24_ErrorTracksLatestCall ==
    [][ /\ (lastOp'.op \in DispatchOps /\ lastOp'.call # 0) => error' = Null
        /\ \A c \in calls :
              lastOp'.call = c.id =>
                /\ lastOp'.op = "generateFailed" =>
                       error' = Some(ExpectedError(Val(lastOp'.arg),
                                                   "Generation failed"))
                /\ lastOp'.op = "refineFailed" =>
                       error' = Some(ExpectedError(Val(lastOp'.arg),
                                                   "Refinement failed"))
                /\ (lastOp'.op \in {"generateOk", "refineOk"}
                        /\ ~c.overlapped) => error' = Null ]_vars

\* A refine failed with a value that is not an Error, after a generate that
\* succeeded.
C24_Witness ==
    /\ lastOp.op = "refineFailed"
    /\ ~lastOp.overlapped
    /\ Val(lastOp.arg).rejects
    /\ error = Some("Refinement failed")
    /\ presentation # Null

\* C25: when the transport answers every request, a session with
\* isGenerating true eventually has isGenerating false, and one with
\* isRefining true eventually has isRefining false.
C25_NeverBusyForever ==
    /\ isGenerating ~> ~isGenerating
    /\ isRefining ~> ~isRefining

\* A generate that was not reset has completed with a failure.
C25_Witness ==
    /\ lastOp.op = "generateFailed"
    /\ ~lastOp.resetDuring
    /\ ~isGenerating
    /\ calls = {}

\* C26: the request a generate hands to the transport carries the prompt it
\* was invoked with, a generation_mode equal to the store's generationMode
\* at that time, num_slides iff a slide count was given (and then that
\* count), and the file iff templateFile was non-null (and then that file).
C26_RequestCarriesForm ==
    [][\A c \in calls' :
        (lastOp'.op = "generate" /\ lastOp'.call = c.id) =>
            /\ Len(lastOp'.sent) = 1
            /\ LET req == lastOp'.sent[1] IN
               /\ req.path = "/api/generate"
               /\ FieldValues(req, "prompt") = {c.arg}
               /\ FieldValues(req, "generation_mode") = {generationMode}
               /\ FieldValues(req, "num_slides") =
                      (IF c.numSlides = Null THEN {}
                       ELSE {ToString(Val(c.numSlides))})
               /\ FieldValues(req, "file") =
                      (IF templateFile = Null THEN {}
                       ELSE {Val(templateFile)})]_vars

\* A reference-mode generate with a file and a slide count has been sent.
C26_Witness ==
    /\ lastOp.op = "generate"
    /\ generationMode = "reference"
    /\ templateFile # Null
    /\ "num_slides" \in FieldNames(lastOp.sent[1])
    /\ "file" \in FieldNames(lastOp.sent[1])

\* C27: a generate request whose generation_mode is from_scratch carries no
\* file.
C27_NoFileFromScratch ==
    lastOp.op = "generate" =>
        \A k \in DOMAIN lastOp.sent :
            "from_scratch" \in FieldValues(lastOp.sent[k], "generation_mode") =>
                "file" \notin FieldNames(lastOp.sent[k])

\* C28: with the cursor moved only by the next and previous buttons and the
\* thumbnails, whatever calls complete in between, activeSlideIndex is an
\* index of the current presentation's slides whenever there is one.
C28_NavigationKeepsCursorValid ==
    presentation # Null =>
        /\ 0 <= activeSlideIndex
        /\ activeSlideIndex < Len(Val(presentation).slides)

\* The cursor was moved to the second slide of a two-slide deck that
\* replaced an earlier deck.
C28_Witness ==
    /\ lastOp.op = "setActiveSlide"
    /\ presentationId = Some("p2")
    /\ Len(Val(presentation).slides) = 2
    /\ activeSlideIndex = 1

\* C29: templateFile, whenever non-null, is a file whose name ends in .pptx.
C29_TemplateFileIsPptx ==
    templateFile # Null => endsWith(Val(templateFile), ".pptx")

\* C30: setPrompt, setActiveSlide, setGenerationMode and setTemplateFile
\* each write their argument to their own field and leave every other field,
\* the outstanding calls and the transport alone; downloadPptx changes no
\* field, opens downloadUrl when it is non-null and opens nothing when it is
\* null.
C30_SettersChangeOwnFieldOnly ==
    [][ /\ lastOp'.op = "setPrompt" =>
              /\ prompt' = Val(lastOp'.arg)
              /\ UNCHANGED <<isGenerating, isRefining, presentation,
                             presentationId, previewUrls, downloadUrl, error,
                             activeSlideIndex, generationMode, templateFile,
                             promptHistory, calls, nCalls, opened>>
        /\ lastOp'.op = "setActiveSlide" =>
              /\ activeSlideIndex' = Val(lastOp'.arg)
              /\ UNCHANGED <<prompt, isGenerating, isRefining, presentation,
                             presentationId, previewUrls, downloadUrl, error,
                             generationMode, templateFile, promptHistory,
                             calls, nCalls, opened>>
        /\ lastOp'.op = "setGenerationMode" =>
              /\ generationMode' = Val(lastOp'.arg)
              /\ UNCHANGED <<prompt, isGenerating, isRefining, presentation,
                             presentationId, previewUrls, downloadUrl, error,
                             activeSlideIndex, templateFile, promptHistory,
                             calls, nCalls, opened>>
        /\ lastOp'.op = "setTemplateFile" =>
              /\ templateFile' = lastOp'.arg
              /\ UNCHANGED <<prompt, isGenerating, isRefining, presentation,
                             presentationId, previewUrls, downloadUrl, error,
                             activeSlideIndex, generationMode, promptHistory,
                             calls, nCalls, opened>>
        /\ lastOp'.op = "downloadPptx" =>
              /\ UNCHANGED <<storeVars, calls, nCalls>>
              /\ opened' = (IF downloadUrl = Null THEN opened
                            ELSE opened \cup {Val(downloadUrl)}) ]_vars

\* The download of a generated deck has been opened, with every form field
\* away from its default.
C30_Witness ==
    /\ lastOp.op = "downloadPptx"
    /\ downloadUrl # Null
    /\ Val(downloadUrl) \in opened
    /\ prompt # ""
    /\ activeSlideIndex # 0
    /\ generationMode # "from_scratch"
    /\ templateFile # Null

====
